---- MODULE Spec2Model ----
(***************************************************************************)
(* SolarEdgeClient: the PowerHistory object of history_processing.py (merge *)
(* of the cached power and battery files, alignment of the battery samples  *)
(* on the power grid, the derived battery views), the per-day battery       *)
(* decomposition, the energy integration, the meter dictionaries and the    *)
(* weekly fetch loop of solar_edge_api.py, and the login of                 *)
(* solar_edge_settings.py.                                                  *)
(*                                                                          *)
(* Timestamps are whole seconds counted from an arbitrary origin.  Python   *)
(* numbers are records [v, float]: the value in watts and whether the JSON  *)
(* literal was a float.  numpy arrays are records [dtype, a]; a float64 or  *)
(* int64 array holds its values in units of 1/Scale watt; a float64 value   *)
(* keeps FloatBits significant bits, so that sums and means of the small    *)
(* powers are held exactly and those of large ones are rounded.  List       *)
(* positions are 1-based, bucket indices are the 0-based indices of the     *)
(* code.                                                                    *)
(***************************************************************************)
EXTENDS Integers, Sequences, FiniteSets, TLC

VARIABLES
    self,           \* the PowerHistory object: its instance attributes
    pc,             \* "init" in __init__, "live" once constructed, "dead" when __init__ raised
    raised,         \* the exception the last call raised, and the function that raised it
    group_indices,  \* the local group_indices of the last group_battery_powers call
    arrived,        \* the power records the object has taken in, in order of arrival
    day,            \* the last call of a per-day function of the client: arguments and result
    pair,           \* two PowerHistory objects built from the same samples in two orders
    session,        \* SolarEdgeConnection.start_solar_edge_session: its position and locals
    fetch           \* get_battery_history_for_site: its position, locals and requests

vars == <<self, pc, raised, group_indices, arrived, day, pair, session, fetch>>

\* the variables of the other components
others == <<pair, session, fetch>>

(* ------------------------------ bounds --------------------------------- *)
\* most entries the merged power lists may hold
MaxGrid == 2
\* most samples the merged battery lists may hold
MaxBat == 2
\* significant bits of the model's float64
FloatBits == 12

(* ------------------------------ helpers -------------------------------- *)
Range(s) == {s[i] : i \in DOMAIN s}

SeqsUpTo(S, n) == UNION {[1..k -> S] : k \in 0..n}

\* the permutations of 1..n
IndexPermutations(n) == {f \in [1..n -> 1..n] : \A i, j \in 1..n : i # j => f[i] # f[j]}

RECURSIVE Flatten(_)
Flatten(ss) == IF ss = <<>> THEN <<>> ELSE Head(ss) \o Flatten(Tail(ss))

RECURSIVE SumSeq(_)
SumSeq(s) == IF s = <<>> THEN 0 ELSE Head(s) + SumSeq(Tail(s))

RECURSIVE Gcd(_, _)
Gcd(a, b) == IF b = 0 THEN a ELSE Gcd(b, a % b)

RECURSIVE LcmUpTo(_)
LcmUpTo(n) == IF n <= 1 THEN 1 ELSE (LcmUpTo(n - 1) * n) \div Gcd(LcmUpTo(n - 1), n)

\* the unit of the array values is 1/Scale watt
Scale == LcmUpTo(MaxBat)

Abs(x) == IF x < 0 THEN -x ELSE x

RECURSIVE Pow2(_)
Pow2(n) == IF n = 0 THEN 1 ELSE 2 * Pow2(n - 1)

\* C conversion of a float64 to int64: the fraction is cut off, toward zero
TruncToInt(x) == IF x < 0 THEN -((Abs(x) \div Scale) * Scale) ELSE (x \div Scale) * Scale

PyInt(n) == [v |-> n, float |-> FALSE]
PyFloat(n) == [v |-> n, float |-> TRUE]
\* JSON null
PyNone == [v |-> 0, float |-> FALSE, none |-> TRUE]

\* np.array(list of numbers): float64 when empty or when any element is a float
np_array(lst) ==
    [dtype |-> IF lst = <<>> \/ \E i \in DOMAIN lst : lst[i].float THEN "float64" ELSE "int64",
     a |-> [i \in DOMAIN lst |-> lst[i].v * Scale]]

\* np.array(list of datetimes)
np_array_obj(lst) == [dtype |-> "object", a |-> lst]

NotCached == [dtype |-> "none", a |-> <<>>]

(* -------------------------- argsort, indexing --------------------------- *)
\* sorted() is stable: an index goes after every index whose key is <= its key
RECURSIVE InsertByKeyUnstable(_, _, _)
InsertByKeyUnstable(idx, i, seq) ==
    IF idx = <<>> THEN <<i>>
    ELSE IF seq[Head(idx)] < seq[i] THEN <<Head(idx)>> \o InsertByKeyUnstable(Tail(idx), i, seq)
    ELSE <<i>> \o idx

RECURSIVE InsertByKey(_, _, _)
InsertByKey(idx, i, seq) ==
    IF idx = <<>> THEN <<i>>
    ELSE IF seq[Head(idx)] <= seq[i] THEN <<Head(idx)>> \o InsertByKey(Tail(idx), i, seq)
    ELSE <<i>> \o idx

RECURSIVE ArgsortUpTo(_, _)
ArgsortUpTo(seq, n) == IF n = 0 THEN <<>> ELSE InsertByKey(ArgsortUpTo(seq, n - 1), n, seq)

argsort(seq) == ArgsortUpTo(seq, Len(seq))

\* [lst[i] for i in indices]; IndexError when an index is past the end of lst
IndexOk(lst, indices) == \A k \in DOMAIN indices : indices[k] <= Len(lst)

list_indexed_by_list(lst, indices) == [k \in DOMAIN indices |-> lst[indices[k]]]

(* ------------------------------ PowerHistory ---------------------------- *)
meters == <<"consumption", "production", "feed_in", "purchased">>

\* the two substitutions and lower(), on the meter names of the API and of `meters`
_camel_to_snake(name) ==
    CASE name = "Consumption" -> "consumption"
      [] name = "Production" -> "production"
      [] name = "FeedIn" -> "feed_in"
      [] name = "Purchased" -> "purchased"
      [] name = "SelfConsumption" -> "self_consumption"
      [] OTHER -> name

_list_name(meter_name) == "_" \o _camel_to_snake(meter_name) \o "_list"

_extract_time_stamps(value_list) == [i \in DOMAIN value_list |-> value_list[i].date]

\* entry.get('value', 0)
EntryValue(entry) == IF "value" \in DOMAIN entry THEN entry.value ELSE PyInt(0)

\* lines 47-53 for the meters k..Len(ms) of one file; r = [o, raised]
RECURSIVE LoadMeters(_, _, _, _)
LoadMeters(r, ms, k, timestamp_list) ==
    IF r.raised # "none" \/ k > Len(ms) THEN r
    ELSE IF _extract_time_stamps(ms[k].values) # timestamp_list
         THEN [r EXCEPT !.raised = "AssertionError"]
    ELSE LET name == _list_name(ms[k].type)
             powers == [i \in DOMAIN ms[k].values |-> EntryValue(ms[k].values[i])]
         IN  IF name \notin DOMAIN r.o THEN [r EXCEPT !.raised = "AttributeError"]
             ELSE LoadMeters([r EXCEPT !.o[name] = @ \o powers], ms, k + 1, timestamp_list)

\* the records (timestamp and the four meter values) of a file that loaded
MeterOf(details, type) == CHOOSE m \in DOMAIN details.meters : details.meters[m].type = type

FileRecords(details) ==
    [i \in DOMAIN details.meters[1].values |->
        [timestamp |-> details.meters[1].values[i].date,
         consumption |-> EntryValue(details.meters[MeterOf(details, "Consumption")].values[i]),
         production |-> EntryValue(details.meters[MeterOf(details, "Production")].values[i]),
         feed_in |-> EntryValue(details.meters[MeterOf(details, "FeedIn")].values[i]),
         purchased |-> EntryValue(details.meters[MeterOf(details, "Purchased")].values[i])]]

\* lines 39-53 for the files k..Len(files); r.rows collects the records taken in
RECURSIVE LoadPowerFiles(_, _, _)
LoadPowerFiles(r, files, k) ==
    IF r.raised # "none" \/ k > Len(files) THEN r
    ELSE LET details == files[k].powerDetails IN
         IF details.timeUnit # "QUARTER_OF_AN_HOUR" \/ details.unit # "W"
         THEN [r EXCEPT !.raised = "AssertionError"]
         ELSE LET timestamp_list == _extract_time_stamps(details.meters[1].values)
                  r1 == [r EXCEPT !.o._timestamp_list = @ \o timestamp_list]
                  r2 == LoadMeters(r1, details.meters, 1, timestamp_list)
              IN  LoadPowerFiles(IF r2.raised # "none" THEN r2
                                 ELSE [r2 EXCEPT !.rows = @ \o FileRecords(details)],
                                 files, k + 1)

\* lines 57-59 for the meter lists k..4
RECURSIVE SortMeters(_, _, _)
SortMeters(r, indices, k) ==
    IF r.raised # "none" \/ k > Len(meters) THEN r
    ELSE LET name == _list_name(meters[k]) IN
         IF ~IndexOk(r.o[name], indices) THEN [r EXCEPT !.raised = "IndexError"]
         ELSE SortMeters([r EXCEPT !.o[name] = list_indexed_by_list(@, indices)], indices, k + 1)

\* load_power_history(get_from_server=False) on the object o, the cache
\* directory holding `files`
load_power_history(o, files) ==
    LET r1 == LoadPowerFiles([o |-> o, raised |-> "none", rows |-> <<>>], files, 1) IN
    IF r1.raised # "none" THEN r1
    ELSE LET indices == argsort(r1.o._timestamp_list)
             r2 == [r1 EXCEPT !.o._timestamp_list = list_indexed_by_list(@, indices)]
         IN  SortMeters(r2, indices, 1)

\* lines 65-76 for the files k..Len(files)
RECURSIVE LoadBatteryFiles(_, _, _)
LoadBatteryFiles(r, files, k) ==
    IF r.raised # "none" \/ k > Len(files) THEN r
    ELSE LET storage_data == files[k].storageData IN
         IF storage_data.batteryCount # 1 THEN [r EXCEPT !.raised = "AssertionError"]
         ELSE LET telemetry_list == storage_data.batteries[1].telemetries
                  timestamps == [i \in DOMAIN telemetry_list |-> telemetry_list[i].timeStamp]
                  powers == [i \in DOMAIN telemetry_list |->
                                IF telemetry_list[i].power = PyNone THEN PyFloat(0)
                                ELSE telemetry_list[i].power]
              IN  LoadBatteryFiles([r EXCEPT !.o._battery_timestamp_list = @ \o timestamps,
                                             !.o._battery_power_list = @ \o powers],
                                   files, k + 1)

load_battery_history(o, files) ==
    LET r1 == LoadBatteryFiles([o |-> o, raised |-> "none"], files, 1) IN
    IF r1.raised # "none" THEN r1
    ELSE LET indices == argsort(r1.o._battery_timestamp_list) IN
         [r1 EXCEPT !.o._battery_timestamp_list = list_indexed_by_list(@, indices),
                    !.o._battery_power_list = list_indexed_by_list(@, indices)]

(* ---------------------- cached_property accessors ------------------------ *)
\* functools.cached_property: the first read stores the value in the instance,
\* later reads return the stored value.  X_fget is the decorated function.
Cached(o, name) == o[name] # NotCached

timestamps_fget(o) == np_array_obj(o._timestamp_list)

battery_power_ungrouped_fget(o) == np_array(o._battery_power_ungrouped_list)

battery_timestamps_fget(o) == np_array_obj(o._battery_timestamp_list)

\* the meter properties installed at lines 242-244: _list_to_array(meter)
_list_to_array(o, meter) == np_array(o[_list_name(meter)])

production(o) == _list_to_array(o, "production")

battery_power(o) == o._battery_power

\* the mask with zero power counted as charging
is_battery_charging_from_zero(o) ==
    [dtype |-> "bool", a |-> [i \in DOMAIN battery_power(o).a |-> battery_power(o).a[i] >= 0]]

is_battery_charging_fget(o) ==
    [dtype |-> "bool", a |-> [i \in DOMAIN battery_power(o).a |-> battery_power(o).a[i] > 0]]

\* the object after a read of cached property `name` whose function gives `value`
Store(o, name, value) == IF Cached(o, name) THEN o ELSE [o EXCEPT ![name] = value]

timestamps(o) == IF Cached(o, "timestamps") THEN o.timestamps ELSE timestamps_fget(o)

battery_power_ungrouped(o) ==
    IF Cached(o, "battery_power_ungrouped") THEN o.battery_power_ungrouped
    ELSE battery_power_ungrouped_fget(o)

battery_timestamps(o) ==
    IF Cached(o, "battery_timestamps") THEN o.battery_timestamps ELSE battery_timestamps_fget(o)

is_battery_charging(o) ==
    IF Cached(o, "is_battery_charging") THEN o.is_battery_charging ELSE is_battery_charging_fget(o)

\* arr[mask] = 0 needs a mask of the array's length (IndexError otherwise)
MaskOk(arr, mask) == Len(mask.a) = Len(arr.a)

\* lines 124-126, reading is_battery_charging through its cache
battery_charge_rate_fget(o) ==
    LET charging == battery_power(o)
        mask == is_battery_charging(o)
    IN  [charging EXCEPT !.a = [i \in DOMAIN charging.a |-> IF ~mask.a[i] THEN 0 ELSE charging.a[i]]]

\* lines 130-133
battery_production_fget(o) ==
    LET prod == battery_power(o)
        mask == is_battery_charging(o)
    IN  [prod EXCEPT !.a = [i \in DOMAIN prod.a |-> IF mask.a[i] THEN 0 ELSE -prod.a[i]]]

battery_charge_rate(o) ==
    IF Cached(o, "battery_charge_rate") THEN o.battery_charge_rate ELSE battery_charge_rate_fget(o)

battery_production(o) ==
    IF Cached(o, "battery_production") THEN o.battery_production ELSE battery_production_fget(o)

\* numpy broadcasting of two one-dimensional arrays: equal lengths, or one of
\* them of length 1 (ValueError otherwise)
BroadcastOk(x, y) == Len(x.a) = Len(y.a) \/ Len(x.a) = 1 \/ Len(y.a) = 1

BroadcastLen(x, y) == IF Len(x.a) = 1 THEN Len(y.a) ELSE Len(x.a)

At(x, i) == IF Len(x.a) = 1 THEN x.a[1] ELSE x.a[i]

\* line 104 with the discharge magnitude in place of the signed battery power
solar_production_discharge_only(o) ==
    [dtype |-> "float64",
     a |-> [i \in 1..BroadcastLen(production(o), battery_power(o)) |->
               At(production(o), i)
               + (IF At(battery_power(o), i) < 0 THEN -At(battery_power(o), i) ELSE 0)]]

\* line 104: self.production + self.battery_power
solar_production(o) ==
    [dtype |-> IF production(o).dtype = "int64" /\ battery_power(o).dtype = "int64"
               THEN "int64" ELSE "float64",
     a |-> [i \in 1..BroadcastLen(production(o), battery_power(o)) |->
               At(production(o), i) + At(battery_power(o), i)]]

(* -------------------------- group_battery_powers ------------------------ *)
\* scipy interp1d(x, y, kind='previous') with y = arange(n): it needs x and y of
\* one length and at least one entry, and it refuses (bounds_error) an argument
\* below x[0] or above x[-1]
InterpOk(x, n) == Len(x) = n /\ n >= 1

\* the bounds check without its lower half
InBoundsAboveOnly(x, t) == t <= x[Len(x)]

InBounds(x, t) == x[1] <= t /\ t <= x[Len(x)]

Max(S) == CHOOSE m \in S : \A x \in S : x <= m

\* the value of the latest grid point at or before t, as a 0-based index; the
\* index is clipped to the grid before the bounds are checked
Previous(x, t) == Max({0} \cup {i \in 0..(Len(x) - 1) : x[i + 1] <= t})

\* numpy_groupies aggregate(group_idx, a, func='mean'): one entry per index up
\* to the largest one, the mean of the values of that group, 0 for empty groups
AggregateOk(group_idx, a) == group_idx # <<>> /\ Len(a.a) = Len(group_idx)

GroupMembers(group_idx, g) == {j \in DOMAIN group_idx : group_idx[j] = g}

RECURSIVE SumOver(_, _)
SumOver(f, S) == IF S = {} THEN 0
                 ELSE LET j == CHOOSE j \in S : TRUE IN f[j] + SumOver(f, S \ {j})

\* float64 arithmetic.  A float64 holds 53 significant bits; the model's
\* float64 holds FloatBits significant bits of the value counted in units of
\* 1/Scale watt, and rounds as IEEE 754 does: to the nearest value it can hold,
\* to the one with the even last bit when two are equally near.
RECURSIVE Quantum(_, _)
Quantum(x, q) == IF Abs(x) < Pow2(FloatBits) * q THEN q ELSE Quantum(x, 2 * q)

RoundTo(x, q) ==
    LET below == (x \div q) * q
        rest == x - below
    IN  IF 2 * rest < q THEN below
        ELSE IF 2 * rest > q THEN below + q
        ELSE IF (below \div q) % 2 = 0 THEN below ELSE below + q

FloatRound(x) == RoundTo(x, Quantum(x, 1))

FloatAdd(x, y) == FloatRound(x + y)

\* x / n for a count n >= 1: the quotient to the nearest unit, then as a float64
FloatDiv(x, n) ==
    LET below == x \div n
        rest == x - below * n
    IN  FloatRound(IF 2 * rest < n THEN below
                   ELSE IF 2 * rest > n THEN below + 1
                   ELSE IF below % 2 = 0 THEN below ELSE below + 1)

\* np.bincount(group_idx, weights=a)[g]: the values of group g added to 0.0 one
\* after the other, in the order of the array, for the first n entries
RECURSIVE BincountUpTo(_, _, _, _)
BincountUpTo(group_idx, a, g, n) ==
    IF n = 0 THEN 0
    ELSE IF group_idx[n] = g THEN FloatAdd(BincountUpTo(group_idx, a, g, n - 1), a[n])
    ELSE BincountUpTo(group_idx, a, g, n - 1)

\* func='mean': the sum of the group divided by its count, the fill value 0
\* for a group without members
MeanOfGroup(group_idx, a, g) ==
    LET members == GroupMembers(group_idx, g) IN
    IF members = {} THEN 0
    ELSE FloatDiv(BincountUpTo(group_idx, a.a, g, Len(group_idx)), Cardinality(members))

aggregate_mean(group_idx, a) ==
    [i \in 1..(Max(Range(group_idx)) + 1) |-> MeanOfGroup(group_idx, a, i - 1)]

\* storing a float64 value in an array of dtype `dtype`
CastTo(dtype, x) == IF dtype = "int64" THEN TruncToInt(x) ELSE x

\* group_indices before line 89 has assigned it
NoIndices == <<-1>>

\* group_battery_powers on the object o; r = [o, raised, group_indices]
group_battery_powers(o) ==
    LET o1 == [o EXCEPT !._battery_power_ungrouped_list = o._battery_power_list]
        numeric_timestamps == o1._timestamp_list
        size == Len(timestamps(o1).a)
        o2 == Store(o1, "timestamps", timestamps_fget(o1))
        battery_numeric_timestamps == o2._battery_timestamp_list
    IN
    IF ~InterpOk(numeric_timestamps, size)
    THEN [o |-> o2, raised |-> "ValueError", group_indices |-> NoIndices]
    ELSE IF \E j \in DOMAIN battery_numeric_timestamps :
                ~InBounds(numeric_timestamps, battery_numeric_timestamps[j])
    THEN [o |-> o2, raised |-> "ValueError", group_indices |-> NoIndices]
    ELSE
    LET indices == [j \in DOMAIN battery_numeric_timestamps |->
                       Previous(numeric_timestamps, battery_numeric_timestamps[j])]
        sorted_indices == Range(indices)
        ungrouped == battery_power_ungrouped(o2)
        o3 == Store(o2, "battery_power_ungrouped", battery_power_ungrouped_fget(o2))
    IN
    IF ~AggregateOk(indices, ungrouped)
    THEN [o |-> o3, raised |-> "ValueError", group_indices |-> indices]
    ELSE
    LET battery_grouped_power == aggregate_mean(indices, ungrouped)
        zeros == production(o3)
    IN
    IF \E g \in sorted_indices : g + 1 > Len(zeros.a)
    THEN [o |-> o3, raised |-> "IndexError", group_indices |-> indices]
    ELSE [o |-> [o3 EXCEPT !._battery_power =
                    [dtype |-> zeros.dtype,
                     a |-> [i \in DOMAIN zeros.a |->
                              IF (i - 1) \in sorted_indices
                              THEN CastTo(zeros.dtype, battery_grouped_power[i])
                              ELSE 0]]],
          raised |-> "none", group_indices |-> indices]

(* --------------------------- the cache directory ------------------------ *)
\* the quarter-hour points the power files may hold, and the seconds a battery
\* sample may carry: before the first point, on a point, between two, after the last
PowerDates == {2 * k : k \in 1..MaxGrid}

BatteryTimes == 1..(2 * MaxGrid + 1)

\* the values one power row gives the four meters ("value" may be absent)
RowKinds == {"ints", "float"}

RowValue(kind, meter) ==
    CASE meter = "Consumption" -> IF kind = "ints" THEN <<PyInt(1)>> ELSE <<PyInt(5)>>
      [] meter = "Production" -> IF kind = "ints" THEN <<PyInt(10)>> ELSE <<PyFloat(20)>>
      [] meter = "FeedIn" -> IF kind = "ints" THEN <<PyInt(3)>> ELSE <<>>
      [] OTHER -> IF kind = "ints" THEN <<PyInt(4)>> ELSE <<PyInt(8)>>

PowerRows == [date : PowerDates, kind : RowKinds]

FileMeters == <<"Consumption", "Production", "FeedIn", "Purchased">>

\* what may be wrong with a power file: nothing, a timeUnit other than the
\* quarter of an hour, a meter whose dates differ from the first meter's, a
\* meter the object has no list for
PowerDefects == {"none", "timeUnit", "dates", "meter"}

\* the JSON of one power_details_*.json holding `rows`
PowerFile(rows, defect) ==
    [powerDetails |->
        [timeUnit |-> IF defect = "timeUnit" THEN "DAY" ELSE "QUARTER_OF_AN_HOUR",
         unit |-> "W",
         meters |-> [m \in 1..Len(FileMeters) |->
            [type |-> IF defect = "meter" /\ m = 3 THEN "SelfConsumption" ELSE FileMeters[m],
             values |-> [i \in DOMAIN rows |->
                LET d == rows[i].date + (IF defect = "dates" /\ m = 4 THEN 1 ELSE 0)
                    val == RowValue(rows[i].kind, FileMeters[m])
                IN  IF val = <<>> THEN [date |-> d] ELSE [date |-> d, value |-> val[1]]]]]]]

BatteryPowers == {PyFloat(-35), PyFloat(50), PyNone}

Telemetries == [timeStamp : BatteryTimes, power : BatteryPowers]

\* the JSON of one battery_details_*.json
BatteryFile(telemetry_list, count) ==
    [storageData |-> [batteryCount |-> count, batteries |-> <<[telemetries |-> telemetry_list]>>]]

\* The files of one load call, holding at most n rows drawn from `rows`.  A
\* load stops at the first file that fails and good files add up to their
\* concatenation, so every outcome is that of one good file, of two good
\* files, or of a good file followed by a file that fails; a file whose header
\* is refused is refused whatever rows it holds.
Cuts(r, first) == {<<SubSeq(r, 1, k), SubSeq(r, k + 1, Len(r))>> : k \in first..(Len(r) - 1)}

PowerFileLists(rows, n) ==
    LET R == SeqsUpTo(rows, n) IN
    {<<PowerFile(r, "none")>> : r \in R}
    \cup UNION {{<<PowerFile(c[1], "none"), PowerFile(c[2], "none")>> : c \in Cuts(r, 1)} : r \in R}
    \cup UNION {{<<PowerFile(c[1], "none"), PowerFile(c[2], d)>> :
                    c \in Cuts(r, 0), d \in {"dates", "meter"}} : r \in R}
    \cup {<<PowerFile(r, "none"), PowerFile(<<>>, "timeUnit")>> : r \in R}

BatteryFileLists(tels, n) ==
    LET T == SeqsUpTo(tels, n) IN
    {<<BatteryFile(t, 1)>> : t \in T}
    \cup UNION {{<<BatteryFile(c[1], 1), BatteryFile(c[2], 1)>> : c \in Cuts(t, 1)} : t \in T}
    \cup {<<BatteryFile(t, 1), BatteryFile(<<>>, 2)>> : t \in T}

\* the smaller directory of the runs that load again after construction
FewPowerRows == {r \in PowerRows : r.kind = "ints"}

FewTelemetries == {t \in Telemetries : t.timeStamp \in {1, 2} /\ t.power # PyNone}

(* ------------------------------ the object ------------------------------ *)
NoError == [in |-> "", exc |-> "none"]

Error(f, e) == [in |-> f, exc |-> e]

\* no per-day function has been called
NoCall == [call |-> "none"]

\* start_solar_edge_session has not been called
NoSession == [pc |-> "idle"]

\* get_battery_history_for_site has not been called
NoFetch == [pc |-> "idle"]

\* lines 24-30
Fresh ==
    [_timestamp_list |-> <<>>, _battery_timestamp_list |-> <<>>, _battery_power_list |-> <<>>,
     _battery_power |-> np_array(<<>>), _battery_power_ungrouped_list |-> <<>>,
     _consumption_list |-> <<>>, _production_list |-> <<>>, _feed_in_list |-> <<>>,
     _purchased_list |-> <<>>,
     timestamps |-> NotCached, battery_power_ungrouped |-> NotCached,
     battery_timestamps |-> NotCached, is_battery_charging |-> NotCached,
     battery_charge_rate |-> NotCached, battery_production |-> NotCached]

Init ==
    /\ self = Fresh
    /\ pc = "init"
    /\ raised = NoError
    /\ group_indices = NoIndices
    /\ arrived = <<>>
    /\ day = NoCall
    /\ pair = NoCall
    /\ session = NoSession
    /\ fetch = NoFetch

\* the outcome of a call of `f`: the object, the exception and the local
Outcome(f, r) ==
    [o |-> r.o,
     raised |-> IF r.raised = "none" THEN NoError ELSE Error(f, r.raised),
     group_indices |-> IF "group_indices" \in DOMAIN r THEN r.group_indices ELSE NoIndices,
     rows |-> IF "rows" \in DOMAIN r THEN r.rows ELSE <<>>]

Return(out) ==
    /\ self' = out.o
    /\ raised' = out.raised
    /\ group_indices' = out.group_indices
    /\ arrived' = arrived \o out.rows
    /\ UNCHANGED <<day, others>>

\* PowerHistory(get_from_server=False), lines 31-33 on the fresh object
ConstructFrom(powerLists, batteryLists) ==
    /\ pc = "init"
    /\ \E pf \in powerLists :
          LET r1 == load_power_history(self, pf) IN
          IF r1.raised # "none"
          THEN Return(Outcome("load_power_history", r1)) /\ pc' = "dead"
          ELSE \E bf \in batteryLists :
                  LET r2 == load_battery_history(r1.o, bf) IN
                  IF r2.raised # "none"
                  THEN /\ Return([Outcome("load_battery_history", r2) EXCEPT !.rows = r1.rows])
                       /\ pc' = "dead"
                  ELSE LET r3 == group_battery_powers(r2.o) IN
                       /\ Return([Outcome("group_battery_powers", r3) EXCEPT !.rows = r1.rows])
                       /\ pc' = IF r3.raised = "none" THEN "live" ELSE "dead"

Construct ==
    ConstructFrom(PowerFileLists(PowerRows, MaxGrid), BatteryFileLists(Telemetries, MaxBat))

ConstructFew ==
    ConstructFrom(PowerFileLists(FewPowerRows, MaxGrid), BatteryFileLists(FewTelemetries, MaxBat))

\* the rows a load may still add
Room(lst, max) == IF Len(lst) >= max THEN 0 ELSE max - Len(lst)

\* history.load_power_history() on the constructed object
LoadPowerHistory ==
    /\ pc = "live"
    /\ \E pf \in PowerFileLists(FewPowerRows, Room(self._timestamp_list, MaxGrid)) :
          Return(Outcome("load_power_history", load_power_history(self, pf)))
    /\ UNCHANGED pc

\* history.load_battery_history()
LoadBatteryHistory ==
    /\ pc = "live"
    /\ \E bf \in BatteryFileLists(FewTelemetries, Room(self._battery_timestamp_list, MaxBat)) :
          Return(Outcome("load_battery_history", load_battery_history(self, bf)))
    /\ UNCHANGED pc

\* history.group_battery_powers()
GroupBatteryPowers ==
    /\ pc = "live"
    /\ Return(Outcome("group_battery_powers", group_battery_powers(self)))
    /\ UNCHANGED pc

\* a read of a cached property that reads nothing through another cache
ReadCached(name, value) ==
    /\ pc = "live"
    /\ Return([o |-> Store(self, name, value), raised |-> NoError, group_indices |-> NoIndices, rows |-> <<>>])
    /\ UNCHANGED pc

ReadTimestamps == ReadCached("timestamps", timestamps_fget(self))

ReadBatteryPowerUngrouped ==
    ReadCached("battery_power_ungrouped", battery_power_ungrouped_fget(self))

ReadBatteryTimestamps == ReadCached("battery_timestamps", battery_timestamps_fget(self))

ReadIsBatteryCharging == ReadCached("is_battery_charging", is_battery_charging_fget(self))

\* a read of battery_charge_rate or battery_production: when not cached, the
\* function reads is_battery_charging (caching it) and masks battery_power
ReadMasked(name, o1, value) ==
    /\ pc = "live"
    /\ IF Cached(self, name) THEN Return([o |-> self, raised |-> NoError, group_indices |-> NoIndices, rows |-> <<>>])
       ELSE IF ~MaskOk(battery_power(o1), is_battery_charging(o1))
       THEN Return([o |-> o1, raised |-> Error(name, "IndexError"), group_indices |-> NoIndices, rows |-> <<>>])
       ELSE Return([o |-> Store(o1, name, value), raised |-> NoError, group_indices |-> NoIndices, rows |-> <<>>])
    /\ UNCHANGED pc

ReadBatteryChargeRate ==
    LET o1 == Store(self, "is_battery_charging", is_battery_charging_fget(self)) IN
    ReadMasked("battery_charge_rate", o1, battery_charge_rate_fget(o1))

ReadBatteryProduction ==
    LET o1 == Store(self, "is_battery_charging", is_battery_charging_fget(self)) IN
    ReadMasked("battery_production", o1, battery_production_fget(o1))

\* a read of solar_production: nothing is stored, the addition may not broadcast
ReadSolarProduction ==
    /\ pc = "live"
    /\ Return([o |-> self,
               raised |-> IF BroadcastOk(production(self), battery_power(self)) THEN NoError
                          ELSE Error("solar_production", "ValueError"),
               group_indices |-> NoIndices, rows |-> <<>>])
    /\ UNCHANGED pc

Read ==
    \/ ReadTimestamps
    \/ ReadBatteryPowerUngrouped
    \/ ReadBatteryTimestamps
    \/ ReadIsBatteryCharging
    \/ ReadBatteryChargeRate
    \/ ReadBatteryProduction
    \/ ReadSolarProduction

\* the object as the repository uses it: built once, then read
Next ==
    \/ Construct
    \/ GroupBatteryPowers
    \/ Read

Spec == Init /\ [][Next]_vars

\* the object with its load methods called again after construction
NextReload ==
    \/ ConstructFew
    \/ LoadPowerHistory
    \/ LoadBatteryHistory
    \/ GroupBatteryPowers
    \/ Read

SpecReload == Init /\ [][NextReload]_vars

(* --------------- solar_edge_api.py: the per-day battery data ------------- *)
\* timedelta(minutes=5) in seconds
FirstInterval == 300

\* lines 166-172 with dt taken from np.diff alone, the first sample given no interval
integrate_power_without_first_interval(timestamps_, powers) ==
    [raised |-> IF Len(timestamps_) = Len(powers) THEN "none" ELSE "ValueError",
     value |-> IF Len(timestamps_) # Len(powers) THEN 0
               ELSE SumSeq([i \in 1..Len(powers) |->
                              IF i = 1 THEN 0 ELSE (timestamps_[i] - timestamps_[i - 1]) * powers[i]])]

\* integrate_power(timestamps, powers): dt is the 5 minutes followed by
\* np.diff(timestamps); dt * powers broadcasts (equal lengths, or one operand of
\* length 1), np.sum of an empty product is 0.  The energy is given in
\* watt-seconds, 3600 times the watt-hours of the code.
integrate_power(timestamps_, powers) ==
    LET dt == <<FirstInterval>> \o [i \in 1..(Len(timestamps_) - 1) |-> timestamps_[i + 1] - timestamps_[i]]
        n == IF Len(dt) = 1 THEN Len(powers) ELSE Len(dt)
    IN  IF ~(Len(dt) = Len(powers) \/ Len(dt) = 1 \/ Len(powers) = 1)
        THEN [raised |-> "ValueError", value |-> 0]
        ELSE [raised |-> "none",
              value |-> SumSeq([i \in 1..n |->
                          (IF Len(dt) = 1 THEN dt[1] ELSE dt[i])
                          * (IF Len(powers) = 1 THEN powers[1] ELSE powers[i])])]

IsNone(x) == "none" \in DOMAIN x

\* lines 133-137
charge_power_from_grid(telemetries) ==
    [i \in DOMAIN telemetries |->
        IF ~IsNone(telemetries[i].power) /\ telemetries[i].power.v > 0
           /\ telemetries[i].ACGridCharging > 0
        THEN telemetries[i].power.v ELSE 0]

\* lines 138-142
charge_power_from_solar(telemetries) ==
    [i \in DOMAIN telemetries |->
        IF ~IsNone(telemetries[i].power) /\ telemetries[i].power.v > 0
           /\ telemetries[i].ACGridCharging = 0
        THEN telemetries[i].power.v ELSE 0]

\* lines 143-145
discharge_power(telemetries) ==
    [i \in DOMAIN telemetries |->
        IF ~IsNone(telemetries[i].power) /\ telemetries[i].power.v < 0
        THEN -telemetries[i].power.v ELSE 0]

\* get_battery_history_for_day on the storageData the API returned;
\* stored_energy is given in hundredths of a watt-hour
get_battery_history_for_day(data) ==
    IF data.batteryCount # 1 THEN [raised |-> "NotImplementedError"]
    ELSE LET telemetries == data.batteries[1].telemetries
             timestamp_list == [i \in DOMAIN telemetries |-> telemetries[i].timeStamp]
             discharge_energy == integrate_power(timestamp_list, discharge_power(telemetries))
             charge_from_solar_energy ==
                 integrate_power(timestamp_list, charge_power_from_solar(telemetries))
         IN  IF discharge_energy.raised # "none" THEN [raised |-> discharge_energy.raised]
             ELSE IF charge_from_solar_energy.raised # "none"
             THEN [raised |-> charge_from_solar_energy.raised]
             ELSE [raised |-> "none",
                   timestamps |-> timestamp_list,
                   charge_power_from_grid |-> charge_power_from_grid(telemetries),
                   discharge_power |-> discharge_power(telemetries),
                   charge_power_from_solar |-> charge_power_from_solar(telemetries),
                   charge_percentage |->
                       [i \in DOMAIN telemetries |-> telemetries[i].batteryPercentageState],
                   charge_from_grid_energy |->
                       SumSeq([i \in DOMAIN telemetries |-> telemetries[i].ACGridCharging]),
                   discharge_energy |-> discharge_energy.value,
                   charge_from_solar_energy |-> charge_from_solar_energy.value,
                   stored_energy |->
                       [i \in DOMAIN telemetries |->
                           telemetries[i].fullPackEnergyAvailable
                           * telemetries[i].batteryPercentageState]]

\* lines 75-83 for the meters k..Len(meters_); out = [raised, output]
RECURSIVE MeterEntries(_, _, _, _, _)
MeterEntries(out, meters_, k, timestamp_list, single_entry) ==
    IF out.raised # "none" \/ k > Len(meters_) THEN out
    ELSE LET values == meters_[k].values IN
         IF _extract_time_stamps(values) # timestamp_list
         THEN [out EXCEPT !.raised = "AssertionError"]
         ELSE IF single_entry /\ "value" \notin DOMAIN values[1]
         THEN [out EXCEPT !.raised = "KeyError"]
         ELSE LET powers == IF single_entry THEN [single |-> TRUE, value |-> values[1].value]
                            ELSE [single |-> FALSE,
                                  value |-> np_array([i \in DOMAIN values |-> EntryValue(values[i])])]
              IN  MeterEntries([out EXCEPT !.output = @ @@ (meters_[k].type :> powers)],
                               meters_, k + 1, timestamp_list, single_entry)

\* meter_list_to_dict(meters): one number per meter for a list of one entry,
\* an array per meter otherwise
meter_list_to_dict(meters_) ==
    LET timestamp_list == _extract_time_stamps(meters_[1].values)
        single_entry == Len(timestamp_list) = 1
        timestamps_ == IF single_entry THEN [single |-> TRUE, value |-> timestamp_list[1]]
                       ELSE [single |-> FALSE, value |-> np_array_obj(timestamp_list)]
    IN  MeterEntries([raised |-> "none", output |-> ("timestamps" :> timestamps_)],
                     meters_, 1, timestamp_list, single_entry)

\* most telemetry records of one day, and most entries of an integrated series
MaxDay == 2

DayTimes == {0, 300, 600}

DayTelemetries ==
    [timeStamp : DayTimes,
     power : {PyFloat(-200), PyFloat(0), PyFloat(100), PyNone},
     ACGridCharging : {-1, 0, 7},
     batteryPercentageState : {50},
     fullPackEnergyAvailable : {9000}]

DayPowers == {-200, 0, 100, 200}

\* client.get_battery_history_for_day(date), the API answering with `data`.
\* The client keeps no state between calls: a behaviour is one call.
GetBatteryHistoryForDay ==
    /\ day = NoCall
    /\ \E t \in SeqsUpTo(DayTelemetries, MaxDay), count \in {1, 2} :
          LET data == [batteryCount |-> count, batteries |-> <<[telemetries |-> t]>>] IN
          day' = [call |-> "get_battery_history_for_day", data |-> data,
                  result |-> get_battery_history_for_day(data)]
    /\ UNCHANGED <<self, pc, raised, group_indices, arrived, others>>

\* SolarEdgeClient.integrate_power(timestamps, powers)
IntegratePower ==
    /\ day = NoCall
    /\ \E t \in SeqsUpTo(DayTimes, MaxDay), p \in SeqsUpTo(DayPowers, MaxDay) :
          day' = [call |-> "integrate_power", timestamps |-> t, powers |-> p,
                  result |-> integrate_power(t, p)]
    /\ UNCHANGED <<self, pc, raised, group_indices, arrived, others>>

\* get_power_history_for_day or get_energy_details hands the meters of the
\* API's answer to meter_list_to_dict
MeterListToDict ==
    /\ day = NoCall
    /\ \E rows \in SeqsUpTo(PowerRows, MaxDay), defect \in {"none", "dates"} :
          LET meters_ == PowerFile(rows, defect).powerDetails.meters IN
          day' = [call |-> "meter_list_to_dict", meters |-> meters_,
                  result |-> meter_list_to_dict(meters_)]
    /\ UNCHANGED <<self, pc, raised, group_indices, arrived, others>>

NextDay ==
    \/ GetBatteryHistoryForDay
    \/ IntegratePower
    \/ MeterListToDict

SpecDay == Init /\ [][NextDay]_vars

(* ------------------- the same samples in two orders --------------------- *)
\* PowerHistory() on a cache directory that holds the files: lines 24-33 on
\* the fresh object
PowerHistory(power_files, battery_files) ==
    LET r1 == load_power_history(Fresh, power_files) IN
    IF r1.raised # "none" THEN [o |-> r1.o, raised |-> r1.raised]
    ELSE LET r2 == load_battery_history(r1.o, battery_files) IN
         IF r2.raised # "none" THEN [o |-> r2.o, raised |-> r2.raised]
         ELSE LET r3 == group_battery_powers(r2.o) IN [o |-> r3.o, raised |-> r3.raised]

\* most samples of the two directories
MaxTied == 3

\* samples on the first grid point and between two points, of a large and of a
\* small power: their sum does not fit the float64 of the model
OrderTelemetries == [timeStamp : {2, 3}, power : {PyFloat(4096), PyFloat(1)}]

\* two cache directories hold the same power file and the same battery
\* samples, the second in another order of arrival
LoadInTwoOrders ==
    /\ pair = NoCall
    /\ \E rows \in SeqsUpTo(PowerRows, MaxGrid), tels \in SeqsUpTo(OrderTelemetries, MaxTied) :
          \E f \in IndexPermutations(Len(tels)) :
             LET permuted == [i \in DOMAIN tels |-> tels[f[i]]] IN
             pair' = [call |-> "PowerHistory", telemetries |-> tels, permuted |-> permuted,
                      first |-> PowerHistory(<<PowerFile(rows, "none")>>, <<BatteryFile(tels, 1)>>),
                      second |-> PowerHistory(<<PowerFile(rows, "none")>>,
                                              <<BatteryFile(permuted, 1)>>)]
    /\ UNCHANGED <<self, pc, raised, group_indices, arrived, day, session, fetch>>

NextOrder == LoadInTwoOrders

SpecOrder == Init /\ [][NextOrder]_vars

(* ------------- solar_edge_settings.py: SolarEdgeConnection -------------- *)
\* most manual logins of one session
MaxLogins == 2

\* what the user types at a prompt of manual_login
Answers == {"", "y", "n", " No", "c"}

\* answer.strip().lower().startswith('n')
StartsWithN(answer) == answer \in {"n", " No"}

Logged(s, entry) == [s EXCEPT !.log = Append(@, entry)]

\* lines 64-66 with the test of logged_in left out
FinishUnchecked(s) == [Logged(s, [f |-> "add_cookie_consent"]) EXCEPT !.pc = "returned"]

\* lines 64-66: raise unless logged in, then add_cookie_consent
Finish(s) ==
    IF ~s.logged_in THEN [s EXCEPT !.pc = "raised", !.raised = "SolarEdgeAuthenticationError"]
    ELSE [Logged(s, [f |-> "add_cookie_consent"]) EXCEPT !.pc = "returned"]

\* logged_in = self.check_login(), lines 55 and 61: whether the dashboard shows
\* the site is the browser's answer
CheckLogin(s, result) ==
    [Logged(s, [f |-> "check_login", result |-> result]) EXCEPT !.logged_in = result]

\* lines 56-57: the session waits in manual_login when it is interactive and
\* not logged in, and goes on to line 64 otherwise
LoopTest(s) ==
    IF s.interactive_session /\ ~s.logged_in THEN [s EXCEPT !.pc = "manual"] ELSE Finish(s)

\* lines 52-57: start_chrome, login_using_cached_cookies (which opens the
\* cookie cache file, lines 114-115), the first check_login
StartSession ==
    /\ session = NoSession
    /\ \E interactive \in BOOLEAN, cookie_file \in BOOLEAN, result \in BOOLEAN :
          LET s0 == [pc |-> "start", interactive_session |-> interactive,
                     cookie_file |-> cookie_file, logged_in |-> FALSE, raised |-> "none",
                     log |-> <<[f |-> "start_chrome"], [f |-> "login_using_cached_cookies"]>>]
          IN  session' = IF ~cookie_file
                         THEN [s0 EXCEPT !.pc = "raised", !.raised = "FileNotFoundError"]
                         ELSE LoopTest(CheckLogin(s0, result))
    /\ UNCHANGED <<self, pc, raised, group_indices, arrived, day, pair, fetch>>

ManualLogins(s) == Cardinality({i \in DOMAIN s.log : s.log[i].f = "manual_login"})

\* lines 58-63: one turn of the loop.  manual_login raises
\* LoginCancelledException at either prompt (lines 71-73, 79-81), which leaves
\* the loop; otherwise it saves the cookies and check_login is called again.
ManualLogin ==
    /\ session.pc = "manual"
    /\ ManualLogins(session) < MaxLogins
    /\ \E do_manual_login \in Answers, confirmation \in Answers, result \in BOOLEAN :
          IF StartsWithN(do_manual_login)
          THEN session' = Finish(Logged(session, [f |-> "manual_login", cancelled |-> TRUE,
                                                  answers |-> <<do_manual_login>>]))
          ELSE IF StartsWithN(confirmation)
          THEN session' = Finish(Logged(session, [f |-> "manual_login", cancelled |-> TRUE,
                                                  answers |-> <<do_manual_login, confirmation>>]))
          ELSE session' =
                  LoopTest(CheckLogin(
                      [Logged(session, [f |-> "manual_login", cancelled |-> FALSE,
                                        answers |-> <<do_manual_login, confirmation>>])
                          EXCEPT !.cookie_file = TRUE],
                      result))
    /\ UNCHANGED <<self, pc, raised, group_indices, arrived, day, pair, fetch>>

NextSession ==
    \/ StartSession
    \/ ManualLogin

SpecSession == Init /\ [][NextSession]_vars

(* ------------ solar_edge_api.py: get_battery_history_for_site ----------- *)
\* datetimes are whole hours counted from an arbitrary midnight
\* most days between the site's start date and its end date
MaxSiteDays == 15

\* the days the data period may start on
SiteStarts == 0..6

\* datetime.strptime(date, API_DATE_FORMAT): the midnight that begins the day
Midnight(date) == 24 * date

\* datetime.timedelta(days=7)
one_week == 7 * 24

\* lines 180-183: get_site_dates and the first window
GetSiteDates ==
    /\ fetch = NoFetch
    /\ \E startDate \in SiteStarts, days \in 1..MaxSiteDays :
          fetch' = [pc |-> "loop",
                    site_start_date |-> Midnight(startDate),
                    site_end_date |-> Midnight(startDate + days),
                    start_date |-> Midnight(startDate),
                    end_date |-> Midnight(startDate) + one_week - 1,
                    requests |-> <<>>]
    /\ UNCHANGED <<self, pc, raised, group_indices, arrived, day, pair, session>>

\* lines 184-190: one week is requested and written, the window moves on
FetchWeek ==
    /\ fetch.pc = "loop"
    /\ fetch.start_date < fetch.site_end_date
    /\ fetch' = [fetch EXCEPT
                    !.requests = Append(@, [startTime |-> fetch.start_date,
                                            endTime |-> fetch.end_date]),
                    !.start_date = @ + one_week,
                    !.end_date = @ + one_week]
    /\ UNCHANGED <<self, pc, raised, group_indices, arrived, day, pair, session>>

\* line 184: the loop test fails and the function returns
FetchReturn ==
    /\ fetch.pc = "loop"
    /\ ~(fetch.start_date < fetch.site_end_date)
    /\ fetch' = [fetch EXCEPT !.pc = "done"]
    /\ UNCHANGED <<self, pc, raised, group_indices, arrived, day, pair, session>>

NextFetch ==
    \/ GetSiteDates
    \/ FetchWeek
    \/ FetchReturn

SpecFetch == Init /\ [][NextFetch]_vars

(* ------------------------------ properties ------------------------------ *)
grid == self._timestamp_list

samples == self._battery_timestamp_list

\* the last call was group_battery_powers, alone or as the last step of __init__
GroupCalled == group_indices # NoIndices \/ raised.in = "group_battery_powers"

GroupReturned == group_indices # NoIndices /\ raised = NoError

StrictlyIncreasing(s) == \A i, j \in DOMAIN s : i < j => s[i] < s[j]

NoDuplicate(s) == \A i, j \in DOMAIN s : i # j => s[i] # s[j]

CachedNames == {"timestamps", "battery_power_ungrouped", "battery_timestamps",
                "is_battery_charging", "battery_charge_rate", "battery_production"}

\* the object with nothing cached: what a first read would compute from
Uncached(o) == [n \in DOMAIN o |-> IF n \in CachedNames THEN NotCached ELSE o[n]]

Recomputed(o, name) ==
    CASE name = "timestamps" -> timestamps_fget(Uncached(o))
      [] name = "battery_power_ungrouped" -> battery_power_ungrouped_fget(Uncached(o))
      [] name = "battery_timestamps" -> battery_timestamps_fget(Uncached(o))
      [] name = "is_battery_charging" -> is_battery_charging_fget(Uncached(o))
      [] name = "battery_charge_rate" -> battery_charge_rate_fget(Uncached(o))
      [] OTHER -> battery_production_fget(Uncached(o))

C2_MergedTimestampsUnique ==
    pc = "live" => NoDuplicate(grid) /\ NoDuplicate(samples)

\* C3: on a strictly increasing grid of N points, every battery sample t at or
\* after grid[0] gets the bucket i in 0..N-1 with grid[i] <= t < grid[i+1],
\* grid[N] read as +infinity.
C3_EverySampleGetsItsBucket ==
    (/\ GroupCalled
     /\ grid # <<>>
     /\ StrictlyIncreasing(grid)
     /\ \A j \in DOMAIN samples : samples[j] >= grid[1])
    => /\ group_indices # NoIndices
       /\ Len(group_indices) = Len(samples)
       /\ \A j \in DOMAIN samples :
             LET i == group_indices[j] IN
             /\ i \in 0..(Len(grid) - 1)
             /\ grid[i + 1] <= samples[j]
             /\ (i = Len(grid) - 1 \/ samples[j] < grid[i + 2])

\* C4: when a battery sample is earlier than the first grid timestamp,
\* group_battery_powers raises, assigns the sample no bucket and leaves
\* _battery_power as it was.
C4_EarlySampleIsRefused ==
    [][(GroupCalled' /\ grid' # <<>> /\ \E j \in DOMAIN samples' : samples'[j] < grid'[1])
       => /\ raised' = Error("group_battery_powers", "ValueError")
          /\ group_indices' = NoIndices
          /\ self'._battery_power = self._battery_power]_vars

\* group_battery_powers called on a constructed object that holds an early sample
C4_Witness ==
    /\ pc = "live"
    /\ GroupCalled
    /\ grid # <<>>
    /\ \E j \in DOMAIN samples : samples[j] < grid[1]
    /\ raised.exc = "ValueError"
    /\ self._battery_power.a # <<>>

Merged(i) ==
    [timestamp |-> self._timestamp_list[i],
     consumption |-> self._consumption_list[i],
     production |-> self._production_list[i],
     feed_in |-> self._feed_in_list[i],
     purchased |-> self._purchased_list[i]]

\* C5: when the loads returned, the five lists have the length of the records
\* taken in, and they are those records in ascending order of timestamp,
\* records of one timestamp in their order of arrival, every meter value at
\* the index of the timestamp it came with.
C5_MergeIsStableSortOfRecords ==
    pc = "live" =>
        LET n == Len(arrived) IN
        /\ Len(self._timestamp_list) = n
        /\ \A m \in Range(meters) : Len(self[_list_name(m)]) = n
        /\ \E f \in IndexPermutations(n) :
              /\ \A i \in 1..n : Merged(i) = arrived[f[i]]
              /\ \A i, j \in 1..n : i < j =>
                    \/ arrived[f[i]].timestamp < arrived[f[j]].timestamp
                    \/ /\ arrived[f[i]].timestamp = arrived[f[j]].timestamp
                       /\ f[i] < f[j]

\* records arrived out of order, and two different records share a timestamp
C5_Witness ==
    /\ pc = "live"
    /\ \E i, j \in DOMAIN arrived :
          /\ i < j
          /\ \/ arrived[i].timestamp > arrived[j].timestamp
             \/ arrived[i].timestamp = arrived[j].timestamp /\ arrived[i] # arrived[j]
          /\ Merged(1).timestamp <= Merged(Len(arrived)).timestamp
          /\ Merged(1) # arrived[1] \/ arrived[i].timestamp = arrived[j].timestamp

\* C6: after group_battery_powers, battery_power has the length of the grid,
\* holds the exact mean of the samples of every bucket that got one, and 0 at
\* every other index.
C6_BucketsHoldExactMeans ==
    GroupReturned =>
        /\ Len(battery_power(self).a) = Len(grid)
        /\ \A i \in DOMAIN battery_power(self).a :
              LET members == GroupMembers(group_indices, i - 1)
                  total == SumOver([j \in DOMAIN self._battery_power_list |->
                                       self._battery_power_list[j].v], members)
              IN  IF members = {} THEN battery_power(self).a[i] = 0
                  ELSE battery_power(self).a[i] * Cardinality(members) = total * Scale

\* C7: every cached view equals its recomputation from the object's current data.
C7_CachesEqualRecomputation ==
    pc = "live" =>
        \A name \in CachedNames : Cached(self, name) => self[name] = Recomputed(self, name)

\* C8: of charge_power_from_grid, charge_power_from_solar and discharge_power
\* exactly one is non-zero when the record's power is non-zero and all are 0
\* when it is 0 or null; grid + solar - discharge is the power.
C8_ThreePartsCoverEveryRecord ==
    (day.call = "get_battery_history_for_day" /\ day.result.raised = "none") =>
        \A i \in DOMAIN day.data.batteries[1].telemetries :
            LET entry == day.data.batteries[1].telemetries[i]
                power == IF IsNone(entry.power) THEN 0 ELSE entry.power.v
                g == day.result.charge_power_from_grid[i]
                s == day.result.charge_power_from_solar[i]
                d == day.result.discharge_power[i]
            IN  /\ g + s - d = power
                /\ power # 0 => Cardinality({k \in {"g", "s", "d"} :
                                     (k = "g" /\ g # 0) \/ (k = "s" /\ s # 0) \/ (k = "d" /\ d # 0)}) = 1
                /\ power = 0 => g = 0 /\ s = 0 /\ d = 0

\* C9: each aligned battery power v is in the charge rate when v > 0, in the
\* battery production (as -v) when v < 0 and in neither when v = 0; the mask is
\* true only for v > 0; charge rate - production = v, both >= 0.
C9_DecompositionIsExclusive ==
    pc = "live" =>
        /\ Len(is_battery_charging(self).a) = Len(battery_power(self).a)
        /\ Len(battery_charge_rate(self).a) = Len(battery_power(self).a)
        /\ Len(battery_production(self).a) = Len(battery_power(self).a)
        /\ \A i \in DOMAIN battery_power(self).a :
              LET v == battery_power(self).a[i]
                  c == battery_charge_rate(self).a[i]
                  d == battery_production(self).a[i]
              IN  /\ is_battery_charging(self).a[i] <=> v > 0
                  /\ c >= 0 /\ d >= 0
                  /\ c - d = v
                  /\ v > 0 => c = v /\ d = 0
                  /\ v < 0 => d = -v /\ c = 0
                  /\ v = 0 => c = 0 /\ d = 0

\* both views were read and are cached, over a charging, a discharging or an
\* idle bucket beside another kind
C9_Witness ==
    /\ pc = "live"
    /\ Cached(self, "battery_charge_rate")
    /\ Cached(self, "battery_production")
    /\ \E i, j \in DOMAIN battery_power(self).a :
          /\ battery_power(self).a[i] > 0
          /\ battery_power(self).a[j] <= 0
          /\ self.battery_charge_rate.a[i] = battery_power(self).a[i]
          /\ self.battery_production.a[j] = -battery_power(self).a[j]

\* C10: integrating an empty series raises; it does not return a number.
C10_EmptySeriesRaises ==
    /\ (day.call = "integrate_power" /\ day.timestamps = <<>> /\ day.powers = <<>>)
          => day.result.raised # "none"
    /\ (day.call = "get_battery_history_for_day" /\ day.data.batteryCount = 1
        /\ day.data.batteries[1].telemetries = <<>>)
          => day.result.raised # "none"

\* C11: with a grid of at least one point and no battery sample at all,
\* group_battery_powers returns without error and battery_power has the
\* length of the grid and holds 0 at every index.
C11_NoSamplesGiveZeros ==
    (GroupCalled /\ grid # <<>> /\ samples = <<>>) =>
        /\ raised = NoError
        /\ Len(battery_power(self).a) = Len(grid)
        /\ \A i \in DOMAIN battery_power(self).a : battery_power(self).a[i] = 0

\* C12: the aligned battery_power does not depend on the order in which the
\* samples arrive: two objects built from the same samples in two orders raise
\* alike, and when they are built their battery_power arrays are identical.
C12_ArrivalOrderDoesNotMatter ==
    pair.call = "PowerHistory" =>
        /\ pair.first.raised = pair.second.raised
        /\ pair.first.raised = "none" =>
              pair.first.o._battery_power = pair.second.o._battery_power

\* the energy of the samples i..Len(p): each power times the seconds since the
\* sample before it
RECURSIVE EnergyFrom(_, _, _)
EnergyFrom(t, p, i) ==
    IF i > Len(p) THEN 0 ELSE (t[i] - t[i - 1]) * p[i] + EnergyFrom(t, p, i + 1)

\* C13: for a non-empty series integrate_power returns the sum of dt_i * power_i
\* with dt_0 = 5 minutes and dt_i = t_i - t_(i-1) for i > 0, negative powers
\* included; 100 W and 200 W ten minutes apart give 150000 watt-seconds.
C13_EnergyIsIntervalTimesPower ==
    (day.call = "integrate_power" /\ day.powers # <<>> /\ Len(day.timestamps) = Len(day.powers)) =>
        /\ day.result.raised = "none"
        /\ day.result.value = 5 * 60 * day.powers[1] + EnergyFrom(day.timestamps, day.powers, 2)
        /\ (day.timestamps = <<0, 600>> /\ day.powers = <<100, 200>>) => day.result.value = 150000

\* the two samples of the example were integrated
C13_Witness ==
    /\ day.call = "integrate_power"
    /\ day.timestamps = <<0, 600>>
    /\ day.powers = <<100, 200>>
    /\ day.result = [raised |-> "none", value |-> 150000]

\* C14: meter_list_to_dict, given value lists of one entry or of several whose
\* dates agree, does not fail and reads an entry without a value field as the
\* number 0, as load_power_history does.
C14_MissingValueIsZero ==
    (/\ day.call = "meter_list_to_dict"
     /\ \A k \in DOMAIN day.meters :
           _extract_time_stamps(day.meters[k].values) = _extract_time_stamps(day.meters[1].values))
    => /\ day.result.raised = "none"
       /\ \A k \in DOMAIN day.meters :
             LET values == day.meters[k].values
                 got == day.result.output[day.meters[k].type]
             IN  \A i \in DOMAIN values :
                    LET want == IF "value" \in DOMAIN values[i] THEN values[i].value.v ELSE 0 IN
                    IF got.single THEN got.value.v = want ELSE got.value.a[i] = want * Scale

\* the calls of f the session has made, as positions of its log
CallsOf(f) == {i \in DOMAIN session.log : session.log[i].f = f}

\* the most recent check_login returned true
LastCheckSucceeded ==
    /\ CallsOf("check_login") # {}
    /\ session.log[Max(CallsOf("check_login"))].result

\* what C15 and its amended form share: a normal return needs a successful last
\* check_login and ends with add_cookie_consent, which no other path calls; a
\* non-interactive session never calls manual_login; an interactive session is
\* in the loop exactly while the last check_login failed and no login was cancelled
SessionPaths ==
    session.pc # "idle" =>
        /\ session.pc = "returned" =>
              /\ LastCheckSucceeded
              /\ session.log[Len(session.log)].f = "add_cookie_consent"
              /\ session.raised = "none"
        /\ session.pc # "returned" => CallsOf("add_cookie_consent") = {}
        /\ ~session.interactive_session => CallsOf("manual_login") = {}
        /\ session.pc = "manual" =>
              /\ session.interactive_session
              /\ ~LastCheckSucceeded
              /\ \A i \in CallsOf("manual_login") : ~session.log[i].cancelled
        /\ (session.interactive_session /\ session.pc = "raised" /\ CallsOf("check_login") # {}) =>
              /\ CallsOf("manual_login") # {}
              /\ session.log[Len(session.log)].f = "manual_login"
              /\ session.log[Len(session.log)].cancelled
        /\ \A i \in CallsOf("manual_login") :
              (i < Len(session.log) /\ ~session.log[i].cancelled) =>
                   session.log[i + 1].f = "check_login"

WindowsOf(h) ==
    {i \in DOMAIN fetch.requests :
        fetch.requests[i].startTime <= h /\ h < fetch.requests[i].endTime}

\* C16: the loop ends after at most one request per week begun, the windows
\* are requested in ascending order of their start, each window starts where
\* the one before it ended, and when the function has returned every hour from
\* the site's start date to its end date lies in exactly one window.
C16_WindowsTileThePeriod ==
    fetch.pc # "idle" =>
        /\ Len(fetch.requests) * one_week < (fetch.site_end_date - fetch.site_start_date) + one_week
        /\ \A i, j \in DOMAIN fetch.requests :
              i < j => fetch.requests[i].startTime < fetch.requests[j].startTime
        /\ \A i \in DOMAIN fetch.requests :
              i > 1 => fetch.requests[i].startTime = fetch.requests[i - 1].endTime
        /\ fetch.pc = "done" =>
              \A h \in fetch.site_start_date..(fetch.site_end_date - 1) :
                  Cardinality(WindowsOf(h)) = 1

====
